---- MODULE Spec2Model ----
(***************************************************************************)
(* Model of telegram_bridge.agent.IIAgentClient: the session state of the  *)
(* client (websocket, _connected, _initialized), its three operations      *)
(* connect(), send_message() and close(), and the backend seen through the *)
(* events that recv() yields.  Every await of the source is one step of a  *)
(* caller, so that backend events and failures fall between the steps.     *)
(* With it, telegram_bridge.bot.handle_message: the handler that drives    *)
(* the client for each chat message and sends the reply to the chat.       *)
(***************************************************************************)
EXTENDS Integers, Sequences, FiniteSets, TLC

VARIABLES
    websocket,      \* self.websocket: None or the connection it refers to
    _connected,     \* self._connected
    _initialized,   \* self._initialized
    conns,          \* the connections opened so far: state, outbound log,
                    \* how far the handshake got on it, the queries the
                    \* backend has still to answer and those that timed out
    pc,             \* per caller: position in the code
    op,             \* per caller: the operation called last
    response_text,  \* per caller: send_message's accumulator
    got,            \* per caller: events read by the collection loop
    origin,         \* per caller: for each event of got, the query it answers
    hello,          \* per caller: type of the first event connect() read
    skipped,        \* per caller: events the initialization loop discarded
    event,          \* per caller: what the initialization loop read last
    exc,            \* per caller: the exception caught by connect()'s handler
    ret,            \* per caller: how the last call ended
    io,             \* per caller: network operations done by the call
    pre,            \* per caller: the session state when the call began
    at_send,        \* per caller: the session state when the query send was attempted
    elapsed,        \* per caller: time since the collection loop began
    since,          \* per caller: time since the loop last read an event
    hpc,            \* per handler: position in handle_message
    ai_reply,       \* per handler: what send_message returned
    i,              \* per handler: the offset of the next chunk
    outbox,         \* per handler: the messages it sent to the chat
    calls           \* number of calls made so far

vars == <<websocket, _connected, _initialized, conns, pc, op, response_text,
          got, hello, skipped, exc, ret, io, pre, at_send, elapsed,
          since, hpc, ai_reply, i, outbox, event, origin, calls>>

----------------------------------------------------------------------------
(* Bounds *)

MaxCalls == 2
MaxEvents == 2

\* the replies handed to the relay are up to MaxChunks full chunks long, give
\* or take Near characters
MaxChunks == 2
Near == 10

\* the `timeout` argument of send_message, in ticks of the clock
Timeout == 2

Procs == {1, 2}
None == 0

----------------------------------------------------------------------------
(* Wire events: {type, content}, content a dict *)

EmptyDict == [k \in {} |-> <<>>]

Has(content, key) == key \in DOMAIN content

\* dict.get(key, default)
Get(content, key, default) == IF Has(content, key) THEN content[key] ELSE default

Deltas == {<<"a">>, <<"b">>}
Texts == {<<"t">>}
ErrorMessages == {<<"Agent failed">>}

AgentResponseContents ==
    {EmptyDict}
    \cup {[delta |-> d] : d \in Deltas}
    \cup {[text |-> t] : t \in Texts}
    \cup {[delta |-> d, text |-> t] : d \in Deltas, t \in Texts}

ErrorContents == {EmptyDict} \cup {[message |-> m] : m \in ErrorMessages}

PlainTypes == {"CONNECTION_ESTABLISHED", "AGENT_INITIALIZED", "tool_use",
               "tool_result", "STREAM_COMPLETE", "UNEXPECTED"}

Events ==
    {[type |-> "agent_response", content |-> c] : c \in AgentResponseContents}
    \cup {[type |-> "ERROR", content |-> c] : c \in ErrorContents}
    \cup {[type |-> t, content |-> EmptyDict] : t \in PlainTypes}

\* what an awaited recv()/send()/connect() yields when the transport fails
TransportFailure == [type |-> "<ConnectionClosed>", content |-> EmptyDict]
\* what self.websocket.recv yields when self.websocket is None
NoneFailure == [type |-> "<AttributeError>", content |-> EmptyDict]

\* a frame on which json.loads, event["type"] or event["content"] raises
Malformed == [type |-> "<malformed>", content |-> EmptyDict]

\* everything an awaited recv() may come back with
Inbound == Events \cup {TransportFailure, Malformed}

TerminalTypes == {"STREAM_COMPLETE", "ERROR"}

----------------------------------------------------------------------------
(* Results and exceptions *)

NoExc == [kind |-> "none", msg |-> <<>>]
NoRet == [kind |-> "none", text |-> <<>>, msg |-> <<>>, cause |-> "none"]
Returned(text) == [kind |-> "return", text |-> text, msg |-> <<>>, cause |-> "none"]
Raised(kind, msg, cause) == [kind |-> kind, text |-> <<>>, msg |-> msg, cause |-> cause]

TransportExc == [kind |-> "ConnectionClosed", msg |-> <<"connection closed">>]
AttributeExc == [kind |-> "AttributeError", msg |-> <<"'NoneType' object has no attribute">>]

DecodeExc == [kind |-> "DecodeError", msg |-> <<"malformed event">>]

ExcOf(ev) ==
    IF ev = NoneFailure THEN AttributeExc
    ELSE IF ev = Malformed THEN DecodeExc
    ELSE TransportExc

NoEvent == [type |-> "none", content |-> EmptyDict]

NoIO == [open |-> 0, recv |-> 0, init |-> 0, attempt |-> 0, query |-> 0, close |-> 0]
Count(p, what) == [io EXCEPT ![p][what] = @ + 1]

Session == [websocket |-> websocket, connected |-> _connected,
            initialized |-> _initialized]

----------------------------------------------------------------------------
Init ==
    /\ websocket = None
    /\ _connected = FALSE
    /\ _initialized = FALSE
    /\ conns = <<>>
    /\ pc = [p \in Procs |-> "idle"]
    /\ op = [p \in Procs |-> "none"]
    /\ response_text = [p \in Procs |-> <<>>]
    /\ got = [p \in Procs |-> <<>>]
    /\ hello = [p \in Procs |-> "none"]
    /\ skipped = [p \in Procs |-> 0]
    /\ exc = [p \in Procs |-> NoExc]
    /\ ret = [p \in Procs |-> NoRet]
    /\ io = [p \in Procs |-> NoIO]
    /\ pre = [p \in Procs |-> Session]
    /\ at_send = [p \in Procs |-> Session]
    /\ elapsed = [p \in Procs |-> 0]
    /\ since = [p \in Procs |-> 0]
    /\ hpc = [p \in Procs |-> "h_idle"]
    /\ ai_reply = [p \in Procs |-> <<>>]
    /\ i = [p \in Procs |-> 0]
    /\ outbox = [p \in Procs |-> <<>>]
    /\ event = [p \in Procs |-> NoEvent]
    /\ origin = [p \in Procs |-> <<>>]
    /\ calls = 0

----------------------------------------------------------------------------
(* The transport *)

\* what recv() on self.websocket yields when the backend offers `offered`
Recv(offered) ==
    IF websocket = None THEN NoneFailure
    ELSE IF conns[websocket].state # "open" THEN TransportFailure
    ELSE offered

\* the query the backend is answering on self.websocket: it answers the
\* queries of a connection in the order it got them; NoQuery when it has none
NoQuery == 0

Answering ==
    IF websocket # None /\ conns[websocket].replying # <<>>
    THEN Head(conns[websocket].replying)
    ELSE NoQuery

\* the connections after recv() yielded ev: a STREAM_COMPLETE or an ERROR is
\* the end of the backend's answer to the query it was answering
AfterRecv(ev) ==
    IF ev = TransportFailure /\ websocket # None
    THEN [conns EXCEPT ![websocket].state = IF @ = "closed" THEN @ ELSE "dead"]
    ELSE IF ev.type \in TerminalTypes /\ Answering # NoQuery
    THEN [conns EXCEPT ![websocket].replying = Tail(@)]
    ELSE conns

\* whether send() on self.websocket goes through, the transport permitting
SendOk(permitted) ==
    /\ websocket # None
    /\ conns[websocket].state = "open"
    /\ permitted

SendExc == IF websocket = None THEN AttributeExc ELSE TransportExc

\* the connections after send(kind) was attempted
AfterSend(kind, permitted) ==
    IF websocket = None THEN conns
    ELSE IF SendOk(permitted)
         THEN [conns EXCEPT ![websocket].sent = Append(@, kind),
                            ![websocket].replying =
                                IF kind = "query"
                                THEN Append(@, Len(conns[websocket].sent) + 1)
                                ELSE @]
         ELSE [conns EXCEPT ![websocket].state = IF @ = "closed" THEN @ ELSE "dead"]

\* the connections after the handshake read ev: reading an event of type
\* `type` takes the handshake of the connection to `stage`
Staged(ev, type, stage) ==
    IF ev.type = type
    THEN [AfterRecv(ev) EXCEPT ![websocket].stage = stage]
    ELSE AfterRecv(ev)

\* websocket.close()
Closed(c) == [conns EXCEPT ![c].state = "closed"]

----------------------------------------------------------------------------
(* Calls *)

Begin(p, name, at) ==
    /\ pc[p] = "idle"
    /\ calls < MaxCalls
    /\ calls' = calls + 1
    /\ pc' = [pc EXCEPT ![p] = at]
    /\ op' = [op EXCEPT ![p] = name]
    /\ response_text' = [response_text EXCEPT ![p] = <<>>]
    /\ got' = [got EXCEPT ![p] = <<>>]
    /\ hello' = [hello EXCEPT ![p] = "none"]
    /\ skipped' = [skipped EXCEPT ![p] = 0]
    /\ exc' = [exc EXCEPT ![p] = NoExc]
    /\ ret' = [ret EXCEPT ![p] = NoRet]
    /\ io' = [io EXCEPT ![p] = NoIO]
    /\ pre' = [pre EXCEPT ![p] = Session]
    /\ at_send' = [at_send EXCEPT ![p] = Session]
    /\ elapsed' = [elapsed EXCEPT ![p] = 0]
    /\ since' = [since EXCEPT ![p] = 0]
    /\ event' = [event EXCEPT ![p] = NoEvent]
    /\ origin' = [origin EXCEPT ![p] = <<>>]
    /\ UNCHANGED <<websocket, _connected, _initialized, conns>>

\* the variables of the relay's handlers
hvars == <<hpc, ai_reply, i, outbox>>

CallConnect(p) == Begin(p, "connect", "c_check") /\ UNCHANGED hvars
CallSendMessage(p) == Begin(p, "send_message", "sm_check") /\ UNCHANGED hvars
CallClose(p) == Begin(p, "close", "cl_check") /\ UNCHANGED hvars

\* the call ends with outcome r
End(p, r) ==
    /\ pc' = [pc EXCEPT ![p] = "idle"]
    /\ ret' = [ret EXCEPT ![p] = r]

\* connect() returns: to its caller, or into send_message
ConnectReturns(p) ==
    IF op[p] = "send_message"
    THEN pc' = [pc EXCEPT ![p] = "sm_send"] /\ UNCHANGED ret
    ELSE End(p, Returned(<<>>))

\* an exception e reaches connect()'s handler
Caught(p, e) ==
    /\ pc' = [pc EXCEPT ![p] = "c_except"]
    /\ exc' = [exc EXCEPT ![p] = e]

----------------------------------------------------------------------------
(* connect() *)

\* a connect() that never takes the early return
ConnectNeverNoop == FALSE

\* `if self._connected: return`
ConnectIsNoop == _connected

ConnectCheck(p) ==
    /\ pc[p] = "c_check"
    /\ IF ConnectIsNoop
       THEN ConnectReturns(p)
       ELSE pc' = [pc EXCEPT ![p] = "c_open"] /\ UNCHANGED ret
    /\ UNCHANGED <<origin, event, outbox, i, ai_reply, hpc, since, elapsed, hello, websocket, _connected, _initialized, conns, op, response_text,
                   got, skipped, exc, io, pre, at_send, calls>>

\* `self.websocket = await websockets.connect(self.ws_url)`
ConnectOpen(p) ==
    /\ pc[p] = "c_open"
    /\ \E ok \in BOOLEAN :
         IF ok
         THEN /\ conns' = Append(conns, [state |-> "open", sent |-> <<>>,
                                       stage |-> "opened", replying |-> <<>>,
                                       late |-> {}])
              /\ websocket' = Len(conns) + 1
              /\ io' = Count(p, "open")
              /\ pc' = [pc EXCEPT ![p] = "c_hello"]
              /\ UNCHANGED exc
         ELSE /\ Caught(p, TransportExc)
              /\ UNCHANGED <<conns, websocket, io>>
    /\ UNCHANGED <<origin, event, outbox, i, ai_reply, hpc, since, elapsed, hello, _connected, _initialized, op, response_text, got, skipped,
                   ret, pre, at_send, calls>>

UnexpectedExc(ev) ==
    [kind |-> "ConnectionError", msg |-> <<"Unexpected event type: ", ev.type>>]

IsFailure(ev) == ev \in {TransportFailure, NoneFailure, Malformed}

\* a check that rejects only an ERROR as first event
EstablishedUnlessError(ev) == ev["type"] # "ERROR"

\* the first event decides whether the session becomes connected
Established(ev) == ev["type"] = "CONNECTION_ESTABLISHED"

\* the first recv() of connect() and the check of its type
ConnectHello(p) ==
    /\ pc[p] = "c_hello"
    /\ \E offered \in Inbound :
         LET ev == Recv(offered) IN
         /\ conns' = Staged(ev, "CONNECTION_ESTABLISHED", "established")
         /\ io' = Count(p, "recv")
         /\ hello' = [hello EXCEPT ![p] = ev.type]
         /\ IF IsFailure(ev)
            THEN Caught(p, ExcOf(ev)) /\ UNCHANGED _connected
            ELSE IF ~Established(ev)
            THEN Caught(p, UnexpectedExc(ev)) /\ UNCHANGED _connected
            ELSE /\ _connected' = TRUE
                 /\ pc' = [pc EXCEPT ![p] = "i_send"]
                 /\ UNCHANGED exc
    /\ UNCHANGED <<origin, event, outbox, i, ai_reply, hpc, since, elapsed, websocket, _initialized, op, response_text, got, skipped,
                   ret, pre, at_send, calls>>

\* `await self.websocket.send(json.dumps(init_message))`
InitSend(p) ==
    /\ pc[p] = "i_send"
    /\ \E permitted \in BOOLEAN :
         /\ conns' = AfterSend("init_agent", permitted)
         /\ IF SendOk(permitted)
            THEN /\ pc' = [pc EXCEPT ![p] = "i_loop"]
                 /\ io' = Count(p, "init")
                 /\ UNCHANGED exc
            ELSE Caught(p, SendExc) /\ UNCHANGED io
    /\ UNCHANGED <<origin, event, outbox, i, ai_reply, hpc, since, elapsed, hello, websocket, _connected, _initialized, op, response_text, got,
                   skipped, ret, pre, at_send, calls>>

\* an ERROR branch that drops the backend's message
InitFailedUnknown(ev) ==
    [kind |-> "RuntimeError",
     msg |-> <<"Agent initialization failed: ", "Unknown error">>]

\* `raise RuntimeError(f"Agent initialization failed: {error_msg}")`
InitFailedExc(ev) ==
    [kind |-> "RuntimeError",
     msg |-> <<"Agent initialization failed: ">>
             \o Get(ev.content, "message", <<"Unknown error">>)]

\* the events a loop may still read: once it has read MaxEvents events that
\* do not end it, only those that end it
Offers(n, ending) ==
    {ev \in Inbound : n < MaxEvents \/ ev.type \in ending \/ IsFailure(ev)}

\* one pass of the `while True` of _initialize_agent
InitRecv(p) ==
    /\ pc[p] = "i_loop"
    /\ \E offered \in Offers(skipped[p], {"AGENT_INITIALIZED", "ERROR"}) :
         LET ev == Recv(offered) IN
         /\ conns' = Staged(ev, "AGENT_INITIALIZED", "initialized")
         /\ event' = [event EXCEPT ![p] = ev]
         /\ io' = Count(p, "recv")
         /\ IF IsFailure(ev)
            THEN Caught(p, ExcOf(ev)) /\ UNCHANGED <<_initialized, skipped, ret>>
            ELSE IF ev.type = "AGENT_INITIALIZED"
            THEN /\ _initialized' = TRUE
                 /\ ConnectReturns(p)
                 /\ UNCHANGED <<exc, skipped>>
            ELSE IF ev.type = "ERROR"
            THEN Caught(p, InitFailedExc(ev)) /\ UNCHANGED <<_initialized, skipped, ret>>
            ELSE /\ skipped' = [skipped EXCEPT ![p] = @ + 1]
                 /\ UNCHANGED <<pc, exc, _initialized, ret>>
    /\ UNCHANGED <<origin, outbox, i, ai_reply, hpc, since, elapsed, hello, websocket, _connected, op, response_text, got, pre, at_send, calls>>

\* a handler that re-raises the exception it caught
Unwrapped(e) == Raised(e.kind, e.msg, "none")

\* `raise ConnectionError(f"Failed to connect to ii-agent: {e}") from e`
WrappedExc(e) ==
    Raised("ConnectionError", <<"Failed to connect to ii-agent: ">> \o e.msg, e.kind)

\* `if self.websocket:` of the handler
HandlerHasHandle == websocket # None

\* `except Exception as e:` up to `await self.websocket.close()`
ConnectExcept(p) ==
    /\ pc[p] = "c_except"
    /\ IF HandlerHasHandle
       THEN /\ conns' = Closed(websocket)
            /\ io' = Count(p, "close")
            /\ pc' = [pc EXCEPT ![p] = "c_clear"]
            /\ UNCHANGED ret
       ELSE /\ End(p, WrappedExc(exc[p]))
            /\ UNCHANGED <<conns, io>>
    /\ UNCHANGED <<origin, event, outbox, i, ai_reply, hpc, since, elapsed, hello, websocket, _connected, _initialized, op, response_text, got,
                   skipped, exc, pre, at_send, calls>>

\* `self.websocket = None` and the raise that follows
ConnectClear(p) ==
    /\ pc[p] = "c_clear"
    /\ websocket' = None
    /\ End(p, WrappedExc(exc[p]))
    /\ UNCHANGED <<origin, event, outbox, i, ai_reply, hpc, since, elapsed, hello, _connected, _initialized, conns, op, response_text, got,
                   skipped, exc, io, pre, at_send, calls>>

----------------------------------------------------------------------------
(* send_message() *)

\* a send_message that takes the session as it finds it
TrustsSession == FALSE

\* `if not self._connected or not self._initialized`
NeedsConnect == ~_connected \/ ~_initialized

SendCheck(p) ==
    /\ pc[p] = "sm_check"
    /\ pc' = [pc EXCEPT ![p] = IF NeedsConnect THEN "c_check" ELSE "sm_send"]
    /\ UNCHANGED <<origin, event, outbox, i, ai_reply, hpc, since, elapsed, hello, websocket, _connected, _initialized, conns, op, response_text,
                   got, skipped, exc, ret, io, pre, at_send, calls>>

\* `await self.websocket.send(json.dumps(query_message))`
SendQuery(p) ==
    /\ pc[p] = "sm_send"
    /\ at_send' = [at_send EXCEPT ![p] = Session]
    /\ \E permitted \in BOOLEAN :
         /\ conns' = AfterSend("query", permitted)
         /\ IF SendOk(permitted)
            THEN /\ pc' = [pc EXCEPT ![p] = "sm_loop"]
                 /\ io' = [io EXCEPT ![p]["attempt"] = @ + 1, ![p]["query"] = @ + 1]
                 /\ UNCHANGED ret
            ELSE /\ End(p, Raised(SendExc.kind, SendExc.msg, "none"))
                 /\ io' = Count(p, "attempt")
    /\ response_text' = [response_text EXCEPT ![p] = <<>>]
    /\ UNCHANGED <<origin, event, outbox, i, ai_reply, hpc, since, elapsed, hello, websocket, _connected, _initialized, op, got, skipped, exc,
                   pre, calls>>

\* an accumulator that prefers text over delta
AccumulateTextFirst(text, content) ==
    IF Has(content, "text") THEN text \o content["text"]
    ELSE IF Has(content, "delta") THEN text \o content["delta"]
    ELSE text

\* the agent_response branch: delta if present, else text if present
Accumulate(text, content) ==
    IF Has(content, "delta") THEN text \o content["delta"]
    ELSE IF Has(content, "text") THEN text \o content["text"]
    ELSE text

\* an ERROR branch that drops the backend's message
AgentErrorNoMessage(ev) ==
    Raised("RuntimeError", <<"Agent error: ", "Unknown error">>, "none")

\* `raise RuntimeError(f"Agent error: {error_msg}")`
AgentErrorExc(ev) ==
    Raised("RuntimeError",
           <<"Agent error: ">> \o Get(ev.content, "message", <<"Unknown error">>),
           "none")

\* a loop that also stops on a tool_result
TerminalOrToolResult(ev) == ev.type \in TerminalTypes \cup {"tool_result"}

\* the event types on which the collection loop stops
Terminal(ev) == ev.type \in TerminalTypes

\* a timer restarted by every read
SinceLastRead(p) == since[p]

\* what the timer of `async with asyncio.timeout(timeout)` measures: it is
\* started once, before the `while True`
TimerReading(p) == elapsed[p]

Expired(p) == TimerReading(p) >= Timeout

\* time passes while the loop awaits recv()
Tick(p) ==
    /\ pc[p] = "sm_loop"
    /\ ~Expired(p)
    /\ elapsed' = [elapsed EXCEPT ![p] = @ + 1]
    /\ since' = [since EXCEPT ![p] = @ + 1]
    /\ UNCHANGED <<origin, event, outbox, i, ai_reply, hpc, websocket, _connected, _initialized, conns, pc, op,
                   response_text, got, hello, skipped, exc, ret, io, pre,
                   at_send, calls>>

\* one pass of the `while True` of send_message
CollectRecv(p) ==
    /\ pc[p] = "sm_loop"
    /\ ~Expired(p)
    /\ since' = [since EXCEPT ![p] = 0]
    /\ \E offered \in Offers(Len(got[p]), TerminalTypes) :
         LET ev == Recv(offered) IN
         /\ conns' = AfterRecv(ev)
         /\ io' = Count(p, "recv")
         /\ IF IsFailure(ev)
            THEN /\ End(p, Raised(ExcOf(ev).kind, ExcOf(ev).msg, "none"))
                 /\ UNCHANGED <<got, origin, response_text>>
            ELSE /\ got' = [got EXCEPT ![p] = Append(@, ev)]
                 /\ origin' = [origin EXCEPT ![p] = Append(@, Answering)]
                 /\ IF ev.type = "agent_response"
                    THEN /\ response_text' = [response_text EXCEPT
                                                ![p] = Accumulate(@, ev.content)]
                         /\ UNCHANGED <<pc, ret>>
                    ELSE IF ~Terminal(ev)
                    THEN UNCHANGED <<pc, ret, response_text>>
                    ELSE IF ev.type = "STREAM_COMPLETE"
                    THEN /\ End(p, Returned(response_text[p]))
                         /\ UNCHANGED response_text
                    ELSE /\ End(p, AgentErrorExc(ev))
                         /\ UNCHANGED response_text
    /\ UNCHANGED <<event, outbox, i, ai_reply, hpc, elapsed, hello, websocket, _connected, _initialized, op, skipped, exc, pre,
                   at_send, calls>>

\* the query of the call caller p is making, among the events sent on the
\* connection: callers that come one after the other sent it last
QueryOf(p) == Len(conns[at_send[p].websocket].sent)

\* a timeout that closes the connection the query went out on
ClosedOnTimeout(p) ==
    IF at_send[p].websocket # None
    THEN Closed(at_send[p].websocket)
    ELSE conns

\* the connections after the exchange of p timed out: nothing is done to the
\* connection, and the backend is not told; its answer to the query is late
Abandoned(p) ==
    IF at_send[p].websocket # None
    THEN [conns EXCEPT ![at_send[p].websocket].late = @ \cup {QueryOf(p)}]
    ELSE conns

\* `asyncio.timeout(timeout)` expires while the loop awaits recv()
CollectTimeout(p) ==
    /\ pc[p] = "sm_loop"
    /\ Expired(p)
    /\ End(p, Raised("TimeoutError", <<>>, "none"))
    /\ conns' = Abandoned(p)
    /\ UNCHANGED <<origin, event, outbox, i, ai_reply, hpc, since, elapsed, hello, websocket, _connected, _initialized, op, response_text,
                   got, skipped, exc, io, pre, at_send, calls>>

----------------------------------------------------------------------------
(* close() *)

\* a close() that does not look at the handle
CloseAlways == TRUE

\* `if self.websocket:` of close()
CloseHasHandle == websocket # None

\* `if self.websocket:` and `await self.websocket.close()`
CloseCheck(p) ==
    /\ pc[p] = "cl_check"
    /\ IF CloseHasHandle
       THEN /\ conns' = Closed(websocket)
            /\ io' = Count(p, "close")
            /\ pc' = [pc EXCEPT ![p] = "cl_reset"]
            /\ UNCHANGED ret
       ELSE /\ End(p, Returned(<<>>))
            /\ UNCHANGED <<conns, io>>
    /\ UNCHANGED <<origin, event, outbox, i, ai_reply, hpc, since, elapsed, hello, websocket, _connected, _initialized, op, response_text, got,
                   skipped, exc, pre, at_send, calls>>

\* the three resets after the close
CloseReset(p) ==
    /\ pc[p] = "cl_reset"
    /\ websocket' = None
    /\ _connected' = FALSE
    /\ _initialized' = FALSE
    /\ End(p, Returned(<<>>))
    /\ UNCHANGED <<origin, event, outbox, i, ai_reply, hpc, since, elapsed, hello, conns, op, response_text, got, skipped, exc, io, pre,
                   at_send, calls>>

----------------------------------------------------------------------------
(* handle_message() of the relay.  The platform SDK is an external            *)
(* collaborator: a call of bot.reply_to or bot.send_message is recorded in    *)
(* the handler's outbox, and the typing indicator of line 35 is not a message. *)

SPLIT_MESSAGE_LENGTH == 4000

\* the variables of the client and of its callers
cvars == <<websocket, _connected, _initialized, conns, pc, op, response_text,
           got, origin, hello, skipped, event, exc, ret, io, pre, at_send, elapsed, since,
           calls>>

Min(a, b) == IF a < b THEN a ELSE b

\* a slice that takes the character at `hi` too
SliceThrough(s, lo, hi) == SubSeq(s, lo + 1, Min(hi + 1, Len(s)))

\* s[lo:hi] for 0 <= lo <= hi
Slice(s, lo, hi) == SubSeq(s, lo + 1, Min(hi, Len(s)))

Sent(kind, text) == [kind |-> kind, text |-> text]

\* a handler that lets the timeout through
CaughtUnlessTimeout(r) == r.kind \notin {"none", "return", "TimeoutError"}

\* `except Exception`: every exception send_message raises is an Exception
CaughtByHandler(r) == r.kind \notin {"none", "return"}

\* f"... Error: {str(e)}"
Notice(r) == <<"Error: ">> \o r.msg

\* a message arrives: up to the call of agent.send_message
HandleMessage(p) ==
    /\ hpc[p] \in {"h_idle", "h_done"}
    /\ Begin(p, "send_message", "sm_check")
    /\ hpc' = [hpc EXCEPT ![p] = "h_wait"]
    /\ ai_reply' = [ai_reply EXCEPT ![p] = <<>>]
    /\ i' = [i EXCEPT ![p] = 0]
    /\ outbox' = [outbox EXCEPT ![p] = <<>>]

\* send_message returned: the test of the length, and the single reply
HandleReply(p) ==
    /\ hpc[p] = "h_wait"
    /\ pc[p] = "idle"
    /\ ret[p].kind = "return"
    /\ ai_reply' = [ai_reply EXCEPT ![p] = ret[p].text]
    /\ IF Len(ret[p].text) > SPLIT_MESSAGE_LENGTH
       THEN /\ hpc' = [hpc EXCEPT ![p] = "h_chunk"]
            /\ i' = [i EXCEPT ![p] = 0]
            /\ UNCHANGED outbox
       ELSE /\ outbox' = [outbox EXCEPT ![p] = Append(@, Sent("reply", ret[p].text))]
            /\ hpc' = [hpc EXCEPT ![p] = "h_done"]
            /\ UNCHANGED i
    /\ UNCHANGED cvars

\* one pass of `for i in range(0, len(ai_reply), SPLIT_MESSAGE_LENGTH)`
SendChunk(p) ==
    /\ hpc[p] = "h_chunk"
    /\ outbox' = [outbox EXCEPT ![p] =
                    Append(@, Sent("chunk", Slice(ai_reply[p], i[p],
                                                  i[p] + SPLIT_MESSAGE_LENGTH)))]
    /\ i' = [i EXCEPT ![p] = @ + SPLIT_MESSAGE_LENGTH]
    /\ hpc' = [hpc EXCEPT ![p] = IF i[p] + SPLIT_MESSAGE_LENGTH < Len(ai_reply[p])
                                 THEN "h_chunk" ELSE "h_done"]
    /\ UNCHANGED <<ai_reply, cvars>>

\* send_message raised: `except Exception as e` and the notice
HandleFailure(p) ==
    /\ hpc[p] = "h_wait"
    /\ pc[p] = "idle"
    /\ ret[p].kind \notin {"none", "return"}
    /\ IF CaughtByHandler(ret[p])
       THEN /\ outbox' = [outbox EXCEPT ![p] = Append(@, Sent("notice", Notice(ret[p])))]
            /\ hpc' = [hpc EXCEPT ![p] = "h_done"]
       ELSE /\ hpc' = [hpc EXCEPT ![p] = "h_raised"]
            /\ UNCHANGED outbox
    /\ UNCHANGED <<ai_reply, i, cvars>>

----------------------------------------------------------------------------
Step(p) ==
    \/ CallConnect(p)
    \/ CallSendMessage(p)
    \/ CallClose(p)
    \/ ConnectCheck(p)
    \/ ConnectOpen(p)
    \/ ConnectHello(p)
    \/ InitSend(p)
    \/ InitRecv(p)
    \/ ConnectExcept(p)
    \/ ConnectClear(p)
    \/ SendCheck(p)
    \/ SendQuery(p)
    \/ Tick(p)
    \/ CollectRecv(p)
    \/ CollectTimeout(p)
    \/ CloseCheck(p)
    \/ CloseReset(p)

\* one caller at a time: each call runs to its end before the next begins
Callers == {1}

Next == \E p \in Callers : Step(p)

Spec == Init /\ [][Next]_vars

----------------------------------------------------------------------------
(* The relay: the client as handle_message drives it *)

\* the steps of a send_message call, its implicit connect() included
Run(p) ==
    \/ ConnectCheck(p)
    \/ ConnectOpen(p)
    \/ ConnectHello(p)
    \/ InitSend(p)
    \/ InitRecv(p)
    \/ ConnectExcept(p)
    \/ ConnectClear(p)
    \/ SendCheck(p)
    \/ SendQuery(p)
    \/ Tick(p)
    \/ CollectRecv(p)
    \/ CollectTimeout(p)

\* the replies of the modelled backend are a few characters long, far from
\* SPLIT_MESSAGE_LENGTH: the chunk loop runs under SpecSplit
RelayStep(p) ==
    \/ HandleMessage(p)
    \/ Run(p)
    \/ HandleReply(p)
    \/ HandleFailure(p)

\* one message handled at a time
RelayNext == \E p \in Callers : RelayStep(p)

SpecRelay == Init /\ [][RelayNext]_vars

----------------------------------------------------------------------------
(* The relay's treatment of one reply, for replies of every length around    *)
(* the multiples of SPLIT_MESSAGE_LENGTH.                                     *)

\* a string of n characters, each character being its own position, so that
\* no two slices of it are equal unless they are the same slice
Numbered(n) == [k \in 1..n |-> k]

ReplyLengths ==
    {n \in 0..(MaxChunks * SPLIT_MESSAGE_LENGTH + Near) :
        \E m \in 0..MaxChunks :
            /\ n - m * SPLIT_MESSAGE_LENGTH <= Near
            /\ m * SPLIT_MESSAGE_LENGTH - n <= Near}

\* asyncio.run(agent.send_message(...)) has just returned a reply to the
\* handler, on a session that is connected and initialized; the history of
\* that call is not kept, the handler reads only what was returned
SplitInit ==
    /\ websocket = 1
    /\ _connected = TRUE
    /\ _initialized = TRUE
    /\ conns = <<[state |-> "open", sent |-> <<"init_agent", "query">>,
                  stage |-> "initialized", replying |-> <<>>, late |-> {}]>>
    /\ pc = [p \in Procs |-> "idle"]
    /\ op = [p \in Procs |-> IF p \in Callers THEN "send_message" ELSE "none"]
    /\ response_text = [p \in Procs |-> <<>>]
    /\ got = [p \in Procs |-> <<>>]
    /\ origin = [p \in Procs |-> <<>>]
    /\ hello = [p \in Procs |-> "none"]
    /\ skipped = [p \in Procs |-> 0]
    /\ event = [p \in Procs |-> NoEvent]
    /\ exc = [p \in Procs |-> NoExc]
    /\ \E n \in ReplyLengths :
         ret = [p \in Procs |-> IF p \in Callers THEN Returned(Numbered(n)) ELSE NoRet]
    /\ io = [p \in Procs |-> NoIO]
    /\ pre = [p \in Procs |-> [websocket |-> None, connected |-> FALSE,
                               initialized |-> FALSE]]
    /\ at_send = [p \in Procs |-> Session]
    /\ elapsed = [p \in Procs |-> 0]
    /\ since = [p \in Procs |-> 0]
    /\ hpc = [p \in Procs |-> IF p \in Callers THEN "h_wait" ELSE "h_idle"]
    /\ ai_reply = [p \in Procs |-> <<>>]
    /\ i = [p \in Procs |-> 0]
    /\ outbox = [p \in Procs |-> <<>>]
    /\ calls = 1

SplitNext == \E p \in Callers : HandleReply(p) \/ SendChunk(p)

SpecSplit == SplitInit /\ [][SplitNext]_vars

----------------------------------------------------------------------------
(* Progress.  What the caller's event loop and the clock guarantee: a step   *)
(* that does not wait for the backend is taken, websockets.connect and       *)
(* send() come back, and time passes.  Nothing makes recv() come back: the   *)
(* backend may stay silent.                                                  *)

Advance ==
    \E p \in Callers :
        \/ ConnectCheck(p)
        \/ ConnectOpen(p)
        \/ InitSend(p)
        \/ ConnectExcept(p)
        \/ ConnectClear(p)
        \/ SendCheck(p)
        \/ SendQuery(p)
        \/ Tick(p)
        \/ CollectTimeout(p)
        \/ CloseCheck(p)
        \/ CloseReset(p)

SpecLive == Init /\ [][Next]_vars /\ WF_vars(Advance)

----------------------------------------------------------------------------
(* The relay with its handlers running concurrently: bot.infinity_polling()  *)
(* hands the messages to the SDK's pool of worker threads, each thread runs  *)
(* handle_message with its own asyncio.run on the shared `agent`, and        *)
(* nothing in the relay or in the client serialises them.                    *)

\* the events of a backend that answers plainly
PlainEvents ==
    {[type |-> "agent_response", content |-> [delta |-> <<"a">>]],
     [type |-> "STREAM_COMPLETE", content |-> EmptyDict],
     [type |-> "ERROR", content |-> [message |-> <<"Agent failed">>]]}

\* the backend sends well-formed events, nothing between the handshake
\* events, and plain events to a query
PlainBackend ==
    \A q \in Procs :
        /\ \A k \in 1..Len(got[q]) : got[q][k] \in PlainEvents
        /\ skipped[q] = 0
        /\ hello[q] \in {"none", "CONNECTION_ESTABLISHED", "<ConnectionClosed>",
                         "<AttributeError>"}
        /\ exc[q].kind # "DecodeError"
        /\ ret[q].kind # "DecodeError"
        /\ exc[q].msg # <<"Agent initialization failed: ", "Unknown error">>

\* the runs of the handlers against a plain backend, one message for each
\* handler of the pool: every such run is a run of the relay
Plainly == PlainBackend' /\ calls' <= Cardinality(Procs)

ConcStep(p) ==
    \/ HandleMessage(p) /\ Plainly
    \/ ConnectCheck(p) /\ Plainly
    \/ ConnectOpen(p) /\ Plainly
    \/ ConnectHello(p) /\ Plainly
    \/ InitSend(p) /\ Plainly
    \/ InitRecv(p) /\ Plainly
    \/ ConnectExcept(p) /\ Plainly
    \/ ConnectClear(p) /\ Plainly
    \/ SendCheck(p) /\ Plainly
    \/ SendQuery(p) /\ Plainly
    \/ Tick(p) /\ Plainly
    \/ CollectRecv(p) /\ Plainly
    \/ CollectTimeout(p) /\ Plainly
    \/ HandleReply(p) /\ Plainly
    \/ HandleFailure(p) /\ Plainly

ConcNext == \E p \in Procs : ConcStep(p)

SpecConc == Init /\ [][ConcNext]_vars

----------------------------------------------------------------------------
(* Properties *)

Idle(p) == pc[p] = "idle"
Finished(p, name) == pc[p] = "idle" /\ op[p] = name
Ready(session) == session.connected /\ session.initialized
Last(seq) == seq[Len(seq)]

\* C1: a query send is attempted only in a session that is connected,
\* initialized and holds a connection handle.
QueryOnlyWhenReady ==
    \A p \in Procs :
        io[p].attempt > 0 =>
            /\ at_send[p].connected
            /\ at_send[p].initialized
            /\ at_send[p].websocket # None

\* C2: connect() called on a session that is connected and initialized does
\* no network operation, changes nothing of the session and returns.
ConnectIdempotent ==
    \A p \in Procs :
        (op[p] = "connect" /\ Ready(pre[p])) =>
            /\ io[p] = NoIO
            /\ Session = pre[p]
            /\ hello[p] = "none"
            /\ pc[p] \in {"c_check", "idle"}
            /\ Idle(p) => ret[p] = Returned(<<>>)

ConnectIdempotentWitness ==
    \E p \in Procs :
        /\ Finished(p, "connect")
        /\ Ready(pre[p])
        /\ ret[p].kind = "return"
        /\ websocket # None
        /\ conns[websocket].sent = <<"init_agent">>

\* C3: a connect() (direct, or made by send_message) on a session that is not
\* both connected and initialized opens a connection and runs the handshake:
\* it never gets past connect() without having done so.
ConnectRetriesUnlessReady ==
    \A p \in Procs :
        (/\ ~Ready(pre[p])
         /\ \/ Finished(p, "connect") /\ ret[p].kind = "return"
            \/ op[p] = "send_message" /\ io[p].attempt > 0) =>
            /\ io[p].open = 1
            /\ io[p].init = 1
            /\ hello[p] = "CONNECTION_ESTABLISHED"

EventTypes == {ev.type : ev \in Events}

\* C4: when the first event connect() reads is of a type other than
\* CONNECTION_ESTABLISHED, connect() sends no init_agent, leaves connected and
\* initialized false, and ends in a ConnectionError.
UnexpectedFirstEventFails ==
    \A p \in Procs :
        (hello[p] \in EventTypes \ {"CONNECTION_ESTABLISHED"}) =>
            /\ io[p].init = 0
            /\ ~_connected
            /\ ~_initialized
            /\ pc[p] \in {"c_except", "c_clear", "idle"}
            /\ Idle(p) => ret[p].kind = "ConnectionError"

UnexpectedFirstEventWitness ==
    \E p \in Procs :
        /\ Idle(p)
        /\ hello[p] = "UNEXPECTED"
        /\ ret[p].kind = "ConnectionError"
        /\ ret[p].cause = "ConnectionError"

\* C5: a failure inside connect() reaches the caller as one ConnectionError
\* whose cause is the failure, and by then the connection this call opened,
\* if any, is closed and the handle is empty.
ConnectFailureCleansUp ==
    \A p \in Procs :
        (Idle(p) /\ exc[p] # NoExc) =>
            /\ ret[p].kind = "ConnectionError"
            /\ ret[p].cause = exc[p].kind
            /\ io[p].attempt = 0
            /\ websocket = None
            /\ io[p].open = 1 => conns[Len(conns)].state = "closed"

ConnectFailureWitness ==
    \E p \in Procs :
        /\ Idle(p)
        /\ exc[p].kind = "RuntimeError"
        /\ io[p].open = 1
        /\ io[p].init = 1
        /\ ret[p].kind = "ConnectionError"

\* C6: after close() returns, the handle is empty and connected and
\* initialized are both false.
CloseResetsAll ==
    \A p \in Procs :
        (Finished(p, "close") /\ ret[p].kind = "return") =>
            /\ websocket = None
            /\ ~_connected
            /\ ~_initialized

\* C7: close() on a session without a handle closes nothing, raises nothing
\* and leaves handle, connected and initialized as they were.
CloseWithoutHandleIsNoop ==
    \A p \in Procs :
        (op[p] = "close" /\ pre[p].websocket = None) =>
            /\ io[p] = NoIO
            /\ Session = pre[p]
            /\ pc[p] \in {"cl_check", "idle"}
            /\ Idle(p) => ret[p] = Returned(<<>>)

CloseWithoutHandleWitness ==
    \E p \in Procs :
        /\ Finished(p, "close")
        /\ pre[p].websocket = None
        /\ ret[p].kind = "return"
        /\ calls > 1

\* the fragment of one event, as the exchange result is defined
Fragment(ev) ==
    IF ev.type # "agent_response" THEN <<>>
    ELSE IF "delta" \in DOMAIN ev.content THEN ev.content.delta
    ELSE IF "text" \in DOMAIN ev.content THEN ev.content.text
    ELSE <<>>

RECURSIVE Reply(_)
\* the fragments of the events before the first STREAM_COMPLETE, in order
Reply(events) ==
    IF events = <<>> \/ Head(events).type = "STREAM_COMPLETE" THEN <<>>
    ELSE Fragment(Head(events)) \o Reply(Tail(events))

\* C8: what send_message returns is the concatenation, in arrival order, of
\* the fragments of the agent_response events read before STREAM_COMPLETE.
ReplyIsConcatenation ==
    \A p \in Procs :
        (Finished(p, "send_message") /\ ret[p].kind = "return") =>
            /\ ret[p].text = Reply(got[p])
            /\ Last(got[p]).type = "STREAM_COMPLETE"

ReplyIsConcatenationWitness ==
    \E p \in Procs :
        /\ Finished(p, "send_message")
        /\ ret[p].kind = "return"
        /\ Len(got[p]) = 3
        /\ got[p][1] = [type |-> "agent_response",
                        content |-> [delta |-> <<"b">>, text |-> <<"t">>]]
        /\ got[p][2] = [type |-> "agent_response", content |-> [text |-> <<"t">>]]
        /\ ret[p].text = <<"b", "t">>

\* the events the collection loop has no effect for
Informational(ev) == ev.type \notin {"agent_response", "STREAM_COMPLETE", "ERROR"}

\* a step of the collection loop that read an event
ReadInLoop(p) == pc[p] = "sm_loop" /\ Len(got'[p]) = Len(got[p]) + 1

\* a step that read an informational event keeps the reply and the loop
KeepsOnInformational(p) ==
    (ReadInLoop(p) /\ Informational(Last(got'[p]))) =>
        /\ response_text'[p] = response_text[p]
        /\ pc'[p] = "sm_loop"

LeftLoop(p) == pc[p] = "sm_loop" /\ pc'[p] # "sm_loop"

EndedByEventOrTimeout(p) ==
    \/ ReadInLoop(p) /\ Last(got'[p]).type \in {"STREAM_COMPLETE", "ERROR"}
    \/ ret'[p].kind = "TimeoutError"

\* C9 as stated: informational events keep the reply and the loop, and the
\* loop ends only on STREAM_COMPLETE, ERROR or the timeout.
LoopEndsOnlyOnTerminalOrTimeout ==
    [][\A p \in Procs :
          /\ KeepsOnInformational(p)
          /\ LeftLoop(p) => EndedByEventOrTimeout(p)]_vars

\* C9 amended: informational events keep the reply and the loop, and the
\* loop ends only on STREAM_COMPLETE, ERROR, the timeout, or an exception
\* raised by reading or decoding an event.
LoopEndsOnlyOnTerminalTimeoutOrReadFailure ==
    [][\A p \in Procs :
          /\ KeepsOnInformational(p)
          /\ LeftLoop(p) =>
                \/ EndedByEventOrTimeout(p)
                \/ /\ got'[p] = got[p]
                   /\ ret'[p].kind \in {"ConnectionClosed", "DecodeError",
                                        "AttributeError"}]_vars

InformationalIgnoredWitness ==
    \E p \in Procs :
        /\ Finished(p, "send_message")
        /\ Len(got[p]) = 2
        /\ got[p][1].type = "tool_use"
        /\ got[p][2].type = "tool_result"
        /\ ret[p].kind = "ConnectionClosed"

\* C10: an ERROR event read by the collection loop ends send_message in a
\* RuntimeError carrying the event's message, or "Unknown error" when it has
\* none; nothing is returned, whatever had been accumulated.
ErrorEventRaises ==
    \A p \in Procs :
        \A k \in 1..Len(got[p]) :
            got[p][k].type = "ERROR" =>
                /\ k = Len(got[p])
                /\ Idle(p)
                /\ ret[p].kind = "RuntimeError"
                /\ ret[p].text = <<>>
                /\ ret[p].msg =
                     <<"Agent error: ">> \o
                     (IF "message" \in DOMAIN got[p][k].content
                      THEN got[p][k].content.message
                      ELSE <<"Unknown error">>)

ErrorEventWitness ==
    \E p \in Procs :
        /\ Finished(p, "send_message")
        /\ Len(got[p]) = 3
        /\ response_text[p] = <<"a", "b">>
        /\ got[p][3] = [type |-> "ERROR", content |-> [message |-> <<"Agent failed">>]]
        /\ ret[p].msg = <<"Agent error: ", "Agent failed">>

\* C11: the timeout bounds the whole collection loop: the loop never runs
\* past `timeout` since it began, however recently it read an event; a call
\* whose loop lasted that long has failed with a timeout and returned no
\* text, and a call fails with a timeout only then, having read no terminal
\* event.
TimeoutBoundsWholeLoop ==
    \A p \in Procs :
        /\ elapsed[p] <= Timeout
        /\ (Idle(p) /\ elapsed[p] = Timeout) =>
              /\ ret[p].kind = "TimeoutError"
              /\ ret[p].text = <<>>
        /\ ret[p].kind = "TimeoutError" =>
              /\ elapsed[p] = Timeout
              /\ \A k \in 1..Len(got[p]) : got[p][k].type \notin TerminalTypes

TimeoutBoundsWholeLoopWitness ==
    \E p \in Procs :
        /\ Finished(p, "send_message")
        /\ ret[p].kind = "TimeoutError"
        /\ Len(got[p]) = 2
        /\ response_text[p] # <<>>
        /\ since[p] < Timeout
        /\ since[p] > 0

\* send_message calls that began on a session that was not connected
Unconnected(p) == op[p] = "send_message" /\ ~pre[p].connected

\* C12 as stated: a send_message call made while the session is not
\* connected has, when it ends, opened one connection, sent one init_agent
\* and sent one query, the query after AGENT_INITIALIZED.
OneConnectOneQuery ==
    \A p \in Procs :
        (Unconnected(p) /\ Idle(p)) =>
            /\ io[p].open = 1
            /\ io[p].init = 1
            /\ io[p].query = 1
            /\ at_send[p].initialized

\* C12 amended: such a call opens at most one connection, sends at most one
\* init_agent and attempts at most one query send; it attempts the query
\* exactly when its connect() returned, which is after it opened one
\* connection, sent one init_agent on it and read AGENT_INITIALIZED from it,
\* and the query is then the second and last event sent on that connection;
\* when its connect() fails it attempts no query and ends in ConnectionError.
AtMostOneConnectOneQuery ==
    \A p \in Procs :
        Unconnected(p) =>
            /\ io[p].open <= 1
            /\ io[p].init <= 1
            /\ io[p].attempt <= 1
            /\ io[p].query <= io[p].attempt
            /\ io[p].attempt = 1 =>
                  /\ io[p].open = 1
                  /\ io[p].init = 1
                  /\ exc[p] = NoExc
                  /\ at_send[p].websocket = Len(conns)
                  /\ at_send[p].websocket # pre[p].websocket
                  /\ conns[Len(conns)].stage = "initialized"
                  /\ conns[Len(conns)].sent =
                        IF io[p].query = 1 THEN <<"init_agent", "query">>
                                          ELSE <<"init_agent">>
            /\ pc[p] = "sm_loop" => io[p].query = 1
            /\ Idle(p) => io[p].attempt = IF exc[p] = NoExc THEN 1 ELSE 0
            /\ (Idle(p) /\ exc[p] # NoExc) => ret[p].kind = "ConnectionError"

ImplicitConnectWitness ==
    \E p \in Procs :
        /\ Unconnected(p)
        /\ Idle(p)
        /\ ret[p].kind = "return"
        /\ io[p].open = 1
        /\ io[p].query = 1
        /\ Len(conns) = 2

\* C13: no pipelining: no query is sent on the session while another
\* send_message call is in its collection loop, so never are two calls in
\* their collection loops at once.
NoPipelining ==
    \A p \in Procs : \A q \in Procs \ {p} :
        ~(pc[p] = "sm_loop" /\ pc[q] = "sm_loop")

\* C14: every send_message call eventually finishes, whatever the backend
\* sends or stops sending, as long as time passes.
SendMessageFinishes ==
    \A p \in Procs : (op[p] = "send_message" /\ pc[p] # "idle") ~> pc[p] = "idle"

\* the part of C14 that the timeout gives: a call that has reached its
\* collection loop finishes
CollectionLoopEnds ==
    \A p \in Procs : pc[p] = "sm_loop" ~> pc[p] = "idle"

RECURSIVE Joined(_)
\* the texts of the messages, one after the other
Joined(msgs) ==
    IF msgs = <<>> THEN <<>> ELSE Head(msgs).text \o Joined(Tail(msgs))

\* C15: for every reply send_message returns, the handler sends one reply
\* when the reply is at most 4000 characters long, and otherwise chunks only,
\* each of them non-empty and at most 4000 characters long, which joined in
\* the order sent are the reply; while it is sending them, the chunks sent so
\* far are the reply up to the next offset.
ChunksTileReply ==
    \A p \in Procs :
        /\ \A k \in 1..Len(outbox[p]) :
              outbox[p][k].kind = "chunk" =>
                  /\ Len(outbox[p][k].text) >= 1
                  /\ Len(outbox[p][k].text) <= SPLIT_MESSAGE_LENGTH
        /\ hpc[p] = "h_chunk" =>
              /\ i[p] < Len(ret[p].text)
              /\ Joined(outbox[p]) = SubSeq(ret[p].text, 1, i[p])
        /\ (hpc[p] = "h_done" /\ ret[p].kind = "return") =>
              IF Len(ret[p].text) <= SPLIT_MESSAGE_LENGTH
              THEN outbox[p] = <<Sent("reply", ret[p].text)>>
              ELSE /\ \A k \in 1..Len(outbox[p]) : outbox[p][k].kind = "chunk"
                   /\ Joined(outbox[p]) = ret[p].text

ChunksTileReplyWitness ==
    \E p \in Procs :
        /\ hpc[p] = "h_done"
        /\ Len(ret[p].text) = 2 * SPLIT_MESSAGE_LENGTH + 1
        /\ Len(outbox[p]) = 3
        /\ Len(outbox[p][1].text) = SPLIT_MESSAGE_LENGTH
        /\ outbox[p][3] = Sent("chunk", <<2 * SPLIT_MESSAGE_LENGTH + 1>>)

\* C16: when send_message fails, of whatever kind the failure is, the
\* handler sends the chat one failure notice and nothing else, and ends
\* without raising; it sends nothing before send_message has ended.
FailureGetsOneNotice ==
    \A p \in Procs :
        /\ hpc[p] # "h_raised"
        /\ hpc[p] = "h_wait" => outbox[p] = <<>>
        /\ (hpc[p] = "h_done" /\ ret[p].kind # "return") =>
              outbox[p] = <<Sent("notice", Notice(ret[p]))>>

FailureGetsOneNoticeWitness ==
    \E p \in Procs :
        /\ hpc[p] = "h_done"
        /\ ret[p].kind = "TimeoutError"
        /\ outbox[p] = <<Sent("notice", <<"Error: ">>)>>
        /\ calls = 2

\* a step of the initialization loop that read from the connection
ReadInInit(p) == pc[p] = "i_loop" /\ io'[p].recv = io[p].recv + 1

\* what the loop does on AGENT_INITIALIZED, on ERROR and on any other event
InitLoopHandles(p) ==
    IF event'[p].type = "AGENT_INITIALIZED"
    THEN /\ _initialized'
         /\ pc'[p] = IF op[p] = "connect" THEN "idle" ELSE "sm_send"
         /\ pc'[p] = "idle" => ret'[p] = Returned(<<>>)
    ELSE IF event'[p].type = "ERROR"
    THEN /\ pc'[p] = "c_except"
         /\ exc'[p].kind = "RuntimeError"
         /\ exc'[p].msg = <<"Agent initialization failed: ">>
                          \o (IF "message" \in DOMAIN event'[p].content
                              THEN event'[p].content.message
                              ELSE <<"Unknown error">>)
         /\ ~_initialized'
    ELSE event'[p].type \in EventTypes =>
            /\ pc'[p] = "i_loop"
            /\ Session' = Session
            /\ conns' = conns
            /\ exc'[p] = exc[p]

\* C17 as stated: the initialization loop ends only on AGENT_INITIALIZED and
\* on ERROR, and discards every other event.
InitLoopEndsOnlyOnInitializedOrError ==
    [][\A p \in Procs :
          ReadInInit(p) =>
              /\ InitLoopHandles(p)
              /\ pc'[p] # "i_loop" =>
                    event'[p].type \in {"AGENT_INITIALIZED", "ERROR"}]_vars

\* C17 amended: the initialization loop ends only on AGENT_INITIALIZED, on
\* ERROR, or on an exception raised by reading or decoding an event, which
\* ends connect() like any other failure; it discards every other event.
InitLoopEndsOnlyOnInitializedErrorOrReadFailure ==
    [][\A p \in Procs :
          ReadInInit(p) =>
              /\ InitLoopHandles(p)
              /\ pc'[p] # "i_loop" =>
                    \/ event'[p].type \in {"AGENT_INITIALIZED", "ERROR"}
                    \/ /\ IsFailure(event'[p])
                       /\ pc'[p] = "c_except"
                       /\ exc'[p] = ExcOf(event'[p])
                       /\ ~_initialized']_vars

InitLoopWitness ==
    \E p \in Procs :
        /\ Idle(p)
        /\ skipped[p] = 2
        /\ event[p] = [type |-> "ERROR", content |-> [message |-> <<"Agent failed">>]]
        /\ ret[p].kind = "ConnectionError"
        /\ ret[p].cause = "RuntimeError"
        /\ ~_initialized

\* how many init_agent events were sent on connection c
InitAgents(c) ==
    Cardinality({k \in 1..Len(conns[c].sent) : conns[c].sent[k] = "init_agent"})

\* C18 as stated: on every connection the client has opened and is no longer
\* shaking hands on, exactly one init_agent was sent, after
\* CONNECTION_ESTABLISHED was read on it and before anything else was sent.
InitAgentOnEveryConnection ==
    \A c \in 1..Len(conns) :
        (\A p \in Procs : Idle(p)) =>
            /\ InitAgents(c) = 1
            /\ conns[c].sent[1] = "init_agent"
            /\ conns[c].stage # "opened"

\* C18 amended: on every connection the client opens at most one init_agent
\* is sent; whatever is sent on the connection is sent after
\* CONNECTION_ESTABLISHED was read on it, and the first event sent is the
\* init_agent; exactly one has been sent on a connection whose handshake is
\* waiting for, or has read, AGENT_INITIALIZED.
InitAgentFirstAndOnce ==
    /\ \A c \in 1..Len(conns) :
          /\ InitAgents(c) <= 1
          /\ conns[c].sent # <<>> =>
                /\ conns[c].sent[1] = "init_agent"
                /\ conns[c].stage # "opened"
          /\ conns[c].stage = "initialized" => InitAgents(c) = 1
    /\ \A p \in Procs :
          pc[p] = "i_loop" =>
              /\ websocket = Len(conns)
              /\ conns[websocket].sent = <<"init_agent">>

InitAgentFirstAndOnceWitness ==
    /\ Len(conns) = 1
    /\ conns[1].stage = "initialized"
    /\ conns[1].sent = <<"init_agent", "query", "query">>
    /\ \A p \in Procs : Idle(p)

\* C19: no send_message call reads a late event of an exchange that timed
\* out before it: of the events its collection loop reads, none is part of
\* the backend's answer to the query of a timed-out exchange other than its
\* own, so its result is not built from such events nor ended by them.
NoLateEvents ==
    \A p \in Procs :
        (op[p] = "send_message" /\ io[p].query = 1) =>
            \A k \in 1..Len(origin[p]) :
                origin[p][k] \in conns[at_send[p].websocket].late =>
                    origin[p][k] = QueryOf(p)

\* C20: between operations, a connected session holds a connection handle
\* and an initialized session is connected.
SessionConsistent ==
    (\A p \in Procs : Idle(p)) =>
        /\ _connected => websocket # None
        /\ _initialized => _connected

\* the half of C20 that holds: between operations, an initialized session
\* is connected
InitializedIsConnected ==
    (\A p \in Procs : Idle(p)) => (_initialized => _connected)

\* send_message calls that ended in a timeout or in an agent ERROR
FailedExchange(p) ==
    /\ Finished(p, "send_message")
    /\ ret[p].kind \in {"TimeoutError", "RuntimeError"}

\* C21: a send_message call that fails with a timeout or with an agent
\* ERROR leaves the session as it was when the query was sent: the same
\* handle, still an open connection that the call did not close, and
\* connected and initialized unchanged.
FailedExchangeKeepsSession ==
    \A p \in Procs :
        FailedExchange(p) =>
            /\ io[p].query = 1
            /\ Session = at_send[p]
            /\ websocket # None
            /\ conns[websocket].state = "open"
            /\ io[p].close = 0

FailedExchangeKeepsSessionWitness ==
    \E p \in Procs :
        /\ FailedExchange(p)
        /\ ret[p].kind = "TimeoutError"
        /\ got[p] # <<>>
        /\ _connected
        /\ _initialized
        /\ conns[websocket].state = "open"
        /\ conns[websocket].late # {}

\* the connections the client opened that are still open
OpenConnections == {c \in 1..Len(conns) : conns[c].state = "open"}

\* C22: the client owns at most one open connection at any time: no
\* connection is opened while one opened earlier is still open.
AtMostOneOpenConnection == Cardinality(OpenConnections) <= 1

====
